---- MODULE Spec2Model ----
(***************************************************************************)
(* Model of main.py of candidate-ranking-demo: a straight-line client of   *)
(* the superlinked framework.  main() declares five schemas, builds four   *)
(* spaces, one effect per (skill, weight) pair and one index, starts an    *)
(* in-memory executor, puts five batches of records into the sources and   *)
(* runs one query.  The framework (vector computation, event aggregation,  *)
(* scoring) is an imported package; only the calls made to it, and the     *)
(* data passed, are program text.  Spec is that run; its actions leave the *)
(* engine variables alone, because what the framework does with a put is   *)
(* not program text.                                                       *)
(*                                                                         *)
(* ScenarioSpec drives an engine with the same declared data: candidates   *)
(* are ingested and the six evaluations recorded one at a time in any      *)
(* order, with queries in between.  Its engine operators follow the        *)
(* documented design (weighted sum of filtered contribution streams,       *)
(* event_influence blend, bounded-number normalisation, ranking by score   *)
(* with ties by id), with decay disabled.                                  *)
(*                                                                         *)
(* Numbers: skill weights are scaled by WeightScale (0.2 -> 20000), query  *)
(* weights by QueryWeightScale (0.03 -> 3); timestamps are minutes         *)
(* relative to `now` (main.py:68), so `now - timedelta(days=2, hours=2,    *)
(* minutes=10)` is -3010.                                                  *)
(***************************************************************************)
EXTENDS Integers, Sequences, FiniteSets, TLC

VARIABLES pc,                  \* position of main() between its statements
          running,             \* executor.run() has returned the app
          skill_source,        \* records put into each InMemorySource,
          position_source,     \*   in the order they were put
          candidate_source,
          skill_score_source,
          evaluation_source,
          queries,             \* number of app.query calls made
          printed,             \* the ranking table has been printed
          ingested,            \* engine: candidate ids held by the index
          log,                 \* engine: evaluation events, in arrival order
          value,               \* engine: skills-space value per candidate
          result               \* engine: last ranking and the log length
                               \*   it was computed at

vars == <<pc, running, skill_source, position_source, candidate_source,
          skill_score_source, evaluation_source, queries, printed,
          ingested, log, value, result>>

client == <<pc, running, skill_source, position_source, candidate_source,
            skill_score_source, evaluation_source, queries, printed>>
engine == <<ingested, log, value, result>>

WeightScale == 100000
QueryWeightScale == 100
MinutesPerDay == 1440

\* main.py:68-70  now and CONTEXT_DATA, the origin of the time axis
now_timestamp == 0

\* main.py:71-76
skill_dicts ==
  << [id |-> "skill1", name |-> "Team player"],
     [id |-> "skill2", name |-> "Frontend technologies"],
     [id |-> "skill3", name |-> "Culture fit"],
     [id |-> "skill4", name |-> "Leadership"] >>

\* main.py:77-90
frontend_position_dict ==
  [id |-> "position1",
   title |-> "Senior Frontend Developer",
   allocated_pay |-> 120000,
   required_date_of_filling |-> now_timestamp + 50 * MinutesPerDay,
   skill_weights |-> <<20000, 50000, 30000, 1>>,
   created_at |-> now_timestamp - 14 * MinutesPerDay]

\* zip(a, b): pairs up to the shorter of the two sequences
zip(a, b) ==
  LET n == IF Len(a) <= Len(b) THEN Len(a) ELSE Len(b)
  IN  [i \in 1..n |-> <<a[i], b[i]>>]

\* the weights paired one position off: skill1 gets the weight of skill2, ...
skill_id_to_weight_shifted ==
  LET w == frontend_position_dict.skill_weights
  IN  [k \in {skill_dicts[i].id : i \in 1..Len(w) - 1} |->
         w[1 + CHOOSE i \in 1..Len(skill_dicts) : skill_dicts[i].id = k]]

\* main.py:91  dict(zip(ids, weights)): a later pair with the same key wins
skill_id_to_weight ==
  LET pairs == zip([i \in 1..Len(skill_dicts) |-> skill_dicts[i].id],
                   frontend_position_dict.skill_weights)
      keys  == {pairs[i][1] : i \in 1..Len(pairs)}
      last(k) == CHOOSE i \in 1..Len(pairs) :
                   /\ pairs[i][1] = k
                   /\ \A j \in 1..Len(pairs) : pairs[j][1] = k => j <= i
  IN  [k \in keys |-> pairs[last(k)][2]]

\* main.py:94-98  the four spaces; a NumberSpace carries mode and bounds
description_space ==
  [name |-> "description_space", kind |-> "TextSimilaritySpace",
   field |-> "self_description"]
desired_pay_space ==
  [name |-> "desired_pay_space", kind |-> "NumberSpace",
   field |-> "desired_pay", mode |-> "MINIMUM",
   min_value |-> frontend_position_dict.allocated_pay, max_value |-> 300000]
availability_space ==
  [name |-> "availability_space", kind |-> "NumberSpace",
   field |-> "date_of_availability", mode |-> "MINIMUM",
   min_value |-> now_timestamp,
   max_value |-> frontend_position_dict.required_date_of_filling]
skills_score_space ==
  [name |-> "skills_score_space", kind |-> "NumberSpace",
   field |-> "skills_score", mode |-> "MAXIMUM",
   min_value |-> 0, max_value |-> 10]

\* main.py:99-107  one Effect per item of skill_id_to_weight
evaluation_effects ==
  { [space |-> skills_score_space.name,
     affected |-> "candidate",
     affecting |-> "skill_score",
     weight |-> skill_id_to_weight[s],
     filter_skill_id |-> s] : s \in DOMAIN skill_id_to_weight }

\* main.py:109-119
candidate_index ==
  [spaces |-> << description_space.name, desired_pay_space.name,
                 availability_space.name, skills_score_space.name >>,
   effects |-> evaluation_effects,
   event_influence |-> 1,
   temperature_halves |-> 1]      \* temperature = 0.5

\* main.py:134-157
candidate_dicts ==
  << [id |-> "candidate1", name |-> "Alice Johnson", desired_pay |-> 115000,
      date_of_availability |-> now_timestamp + 15 * MinutesPerDay,
      skills_score |-> 0,
      created_at |-> now_timestamp - 7 * MinutesPerDay],
     [id |-> "candidate2", name |-> "Bob Smith", desired_pay |-> 125000,
      date_of_availability |-> now_timestamp + 20 * MinutesPerDay,
      skills_score |-> 0,
      created_at |-> now_timestamp - 10 * MinutesPerDay] >>

\* main.py:159-166
skill_score_dicts ==
  << [id |-> "skillscore1", score |-> 7],
     [id |-> "skillscore2", score |-> 10],
     [id |-> "skillscore3", score |-> 7],
     [id |-> "skillscore4", score |-> 7],
     [id |-> "skillscore5", score |-> 8],
     [id |-> "skillscore6", score |-> 10] >>

\* main.py:168-217
evaluation_dicts ==
  << [id |-> "eval1", candidate |-> "candidate1", skill_id |-> "skill1",
      skill_score |-> "skillscore1", interviewer_name |-> "Carol",
      created_at |-> now_timestamp - (2 * MinutesPerDay + 130)],
     [id |-> "eval2", candidate |-> "candidate1", skill_id |-> "skill2",
      skill_score |-> "skillscore2", interviewer_name |-> "Carol",
      created_at |-> now_timestamp - (2 * MinutesPerDay + 125)],
     [id |-> "eval3", candidate |-> "candidate1", skill_id |-> "skill3",
      skill_score |-> "skillscore3", interviewer_name |-> "Carol",
      created_at |-> now_timestamp - (2 * MinutesPerDay + 120)],
     [id |-> "eval4", candidate |-> "candidate2", skill_id |-> "skill1",
      skill_score |-> "skillscore4", interviewer_name |-> "Dave",
      created_at |-> now_timestamp - (6 * MinutesPerDay + 130)],
     [id |-> "eval5", candidate |-> "candidate2", skill_id |-> "skill2",
      skill_score |-> "skillscore5", interviewer_name |-> "Dave",
      created_at |-> now_timestamp - (6 * MinutesPerDay + 125)],
     [id |-> "eval6", candidate |-> "candidate2", skill_id |-> "skill3",
      skill_score |-> "skillscore6", interviewer_name |-> "Dave",
      created_at |-> now_timestamp - (6 * MinutesPerDay + 120)] >>

\* main.py:219-233  the query's weight defaults, its probe and its selection
query ==
  [index_spaces |-> candidate_index.spaces,
   weights |-> [s \in {description_space.name, skills_score_space.name,
                       desired_pay_space.name, availability_space.name} |->
                  CASE s = description_space.name  -> 3
                    [] s = skills_score_space.name -> 90
                    [] s = desired_pay_space.name  -> 3
                    [] s = availability_space.name -> 4],
   find |-> "candidate",
   similar |-> <<description_space.name, "position1.description">>,
   select_all |-> TRUE]

\* the ids of the records held by a source
Ids(source) == {source[i].id : i \in 1..Len(source)}

\* main.py:54-65  main() up to the construction of the five sources
Init ==
  /\ pc = "build"
  /\ running = FALSE
  /\ skill_source = <<>>
  /\ position_source = <<>>
  /\ candidate_source = <<>>
  /\ skill_score_source = <<>>
  /\ evaluation_source = <<>>
  /\ queries = 0
  /\ printed = FALSE
  /\ ingested = {}
  /\ log = <<>>
  /\ value = <<>>
  /\ result = [at |-> -1, order |-> <<>>]

\* main.py:121-126  executor = InMemoryExecutor(...); app = executor.run()
Run ==
  /\ pc = "build"
  /\ running' = TRUE
  /\ pc' = "put_skills"
  /\ UNCHANGED <<skill_source, position_source, candidate_source,
                 skill_score_source, evaluation_source, queries, printed, engine>>

\* main.py:128
PutSkills ==
  /\ pc = "put_skills"
  /\ skill_source' = skill_source \o skill_dicts
  /\ pc' = "put_position"
  /\ UNCHANGED <<running, position_source, candidate_source,
                 skill_score_source, evaluation_source, queries, printed, engine>>

\* main.py:130-132
PutPosition ==
  /\ pc = "put_position"
  /\ position_source' = position_source \o <<frontend_position_dict>>
  /\ pc' = "put_candidates"
  /\ UNCHANGED <<running, skill_source, candidate_source,
                 skill_score_source, evaluation_source, queries, printed, engine>>

\* main.py:134-157
PutCandidates ==
  /\ pc = "put_candidates"
  /\ candidate_source' = candidate_source \o candidate_dicts
  /\ pc' = "put_skill_scores"
  /\ UNCHANGED <<running, skill_source, position_source,
                 skill_score_source, evaluation_source, queries, printed, engine>>

\* main.py:159-166
PutSkillScores ==
  /\ pc = "put_skill_scores"
  /\ skill_score_source' = skill_score_source \o skill_score_dicts
  /\ pc' = "put_evaluations"
  /\ UNCHANGED <<running, skill_source, position_source, candidate_source,
                 evaluation_source, queries, printed, engine>>

\* main.py:168-217
PutEvaluations ==
  /\ pc = "put_evaluations"
  /\ evaluation_source' = evaluation_source \o evaluation_dicts
  /\ pc' = "query"
  /\ UNCHANGED <<running, skill_source, position_source, candidate_source,
                 skill_score_source, queries, printed, engine>>

\* main.py:219-234  result = app.query(query)
Query ==
  /\ pc = "query"
  /\ queries' = queries + 1
  /\ pc' = "print"
  /\ UNCHANGED <<running, skill_source, position_source, candidate_source,
                 skill_score_source, evaluation_source, printed, engine>>

\* main.py:235-237
PrintRanking ==
  /\ pc = "print"
  /\ printed' = TRUE
  /\ pc' = "done"
  /\ UNCHANGED <<running, skill_source, position_source, candidate_source,
                 skill_score_source, evaluation_source, queries, engine>>

Next ==
  \/ Run
  \/ PutSkills
  \/ PutPosition
  \/ PutCandidates
  \/ PutSkillScores
  \/ PutEvaluations
  \/ Query
  \/ PrintRanking

Spec == Init /\ [][Next]_vars

(***************************************************************************)
(* What the program text alone fixes about its run.                        *)
(***************************************************************************)

\* Every evaluation put names a candidate and a skill score already put, and
\* a skill that has an effect: main() never hands the framework an event
\* with an unknown reference.
ReferencesResolved ==
  \A i \in 1..Len(evaluation_source) :
    /\ evaluation_source[i].candidate \in Ids(candidate_source)
    /\ evaluation_source[i].skill_score \in Ids(skill_score_source)
    /\ evaluation_source[i].skill_id \in DOMAIN skill_id_to_weight

\* All records are put before the one query, and nothing is put after it.
QueryIsLast ==
  queries > 0 =>
    /\ pc \in {"print", "done"}
    /\ queries = 1
    /\ Len(evaluation_source) = Len(evaluation_dicts)
    /\ Len(candidate_source) = Len(candidate_dicts)

\* skill4 (Leadership) has an effect but no evaluation is ever put for it.
LeadershipNeverEvaluated ==
  /\ "skill4" \in DOMAIN skill_id_to_weight
  /\ \A i \in 1..Len(evaluation_source) :
       evaluation_source[i].skill_id # "skill4"

\* The index is declared with event_influence = 1 and four spaces, and the
\* query gives a weight to each of them.
IndexAsDeclared ==
  /\ candidate_index.event_influence = 1
  /\ Len(candidate_index.spaces) = 4
  /\ DOMAIN query.weights = {candidate_index.spaces[i] : i \in 1..4}
  /\ Cardinality(evaluation_effects) = 4


(***************************************************************************)
(* The engine of the scenario: declared data, documented arithmetic.       *)
(***************************************************************************)

\* the records of a sequence of dicts, by id
ById(dicts, id) == dicts[CHOOSE i \in 1..Len(dicts) : dicts[i].id = id]

CandidateIds == {candidate_dicts[i].id : i \in 1..Len(candidate_dicts)}

\* ascending id order of the candidates ("candidate1" < "candidate2"), which
\* is their order in candidate_dicts
IdOrder(c) == CHOOSE i \in 1..Len(candidate_dicts) : candidate_dicts[i].id = c

\* the score an evaluation refers to (skill_score reference, main.py:48)
ScoreOf(e) == ById(skill_score_dicts, e.skill_score).score

\* the skills some evaluation is about: skill1..skill3
EvaluatedSkills == {evaluation_dicts[i].skill_id : i \in 1..Len(evaluation_dicts)}

\* the streams of the scenario: the declared weight of each evaluated skill,
\* that is 0.2, 0.5, 0.3
ScenarioWeights == [s \in EvaluatedSkills |-> skill_id_to_weight[s]]

\* the events of lg that pass the filter of stream s and affect candidate c
StreamEvents(lg, c, s) ==
  {i \in 1..Len(lg) : lg[i].candidate = c /\ lg[i].skill_id = s}

RECURSIVE SumScores(_, _)
SumScores(lg, idx) ==
  IF idx = {} THEN 0
  ELSE LET i == CHOOSE k \in idx : TRUE
       IN  ScoreOf(lg[i]) + SumScores(lg, idx \ {i})

\* decay disabled: a stream's value is the uniform average of its events,
\* times the stream's weight (in units of 1/WeightScale)
StreamContribution(lg, c, s, w) ==
  LET idx == StreamEvents(lg, c, s)
  IN  (w * SumScores(lg, idx)) \div Cardinality(idx)

RECURSIVE WeightedSum(_, _, _, _)
WeightedSum(lg, c, weights, streams) ==
  IF streams = {} THEN 0
  ELSE LET s == CHOOSE k \in streams : TRUE
       IN  StreamContribution(lg, c, s, weights[s])
             + WeightedSum(lg, c, weights, streams \ {s})

\* the weighted sum over the streams that have received an event
EventAggregate(lg, c, weights) ==
  WeightedSum(lg, c, weights,
              {s \in DOMAIN weights : StreamEvents(lg, c, s) # {}})

\* final = (1 - influence) * baseline + influence * event_aggregate
Blend(influence, baseline, aggregate) ==
  (1 - influence) * baseline + influence * aggregate

\* the skills-space value of candidate c after the events of lg; before any
\* event has landed it is the baseline, the candidate's own skills_score
SlotValue(lg, c, weights) ==
  LET baseline == ById(candidate_dicts, c).skills_score * WeightScale
  IN  IF \A i \in 1..Len(lg) : lg[i].candidate # c
      THEN baseline
      ELSE Blend(candidate_index.event_influence, baseline,
                 EventAggregate(lg, c, weights))

\* bounded number, mode MAXIMUM: clamp to [min, max], measured from min
Clamped(space, v) ==
  LET lo == space.min_value * WeightScale
      hi == space.max_value * WeightScale
  IN  (IF v < lo THEN lo ELSE IF v > hi THEN hi ELSE v) - lo

\* composite score of a candidate under a weight on the skills space and 0
\* on every other space, probing at the favourable bound
Score(w, v) == w * Clamped(skills_score_space, v)

\* descending by score, ties by ascending id
Ranking(ids, score) ==
  CHOOSE q \in [1..Cardinality(ids) -> ids] :
    /\ \A i, j \in DOMAIN q : i # j => q[i] # q[j]
    /\ \A i, j \in DOMAIN q : i < j =>
         \/ score[q[i]] > score[q[j]]
         \/ score[q[i]] = score[q[j]] /\ IdOrder(q[i]) < IdOrder(q[j])

\* ingest(index, entity_id, attributes): the vector from the attributes alone
Ingest(c) ==
  /\ c \notin ingested
  /\ ingested' = ingested \cup {c}
  /\ value' = [d \in ingested \cup {c} |->
                 IF d = c THEN SlotValue(log, c, ScenarioWeights)
                 ELSE value[d]]
  /\ UNCHANGED <<log, result, client>>

\* record_event(engine, event): append to the log, recompute the affected
\* candidate's slot from the log, write it back
RecordEvent(e) ==
  /\ e.candidate \in ingested
  /\ \A i \in 1..Len(log) : log[i].id # e.id
  /\ log' = Append(log, e)
  /\ value' = [value EXCEPT ![e.candidate] =
                 SlotValue(log', e.candidate, ScenarioWeights)]
  /\ UNCHANGED <<ingested, result, client>>

\* query with weight w (in 1/QueryWeightScale) on the skills space and 0 on
\* every other space
QuerySkills(w) ==
  /\ ingested # {}
  /\ result' = [at |-> Len(log),
                order |-> Ranking(ingested,
                                  [c \in ingested |-> Score(w, value[c])])]
  /\ UNCHANGED <<ingested, log, value, client>>

ScenarioNext ==
  \/ \E c \in CandidateIds : Ingest(c)
  \/ \E i \in 1..Len(evaluation_dicts) : RecordEvent(evaluation_dicts[i])
  \/ QuerySkills(query.weights[skills_score_space.name])

ScenarioSpec == Init /\ [][ScenarioNext]_vars

\* all six evaluations have been recorded and a query has run since
ScenarioRun ==
  /\ Len(log) = Len(evaluation_dicts)
  /\ result.at = Len(log)

\* C7 as stated: after A's evaluations [7,10,7] and B's [7,8,10] under
\* weights [0.2,0.5,0.3] with event_influence 1 and no decay, A's aggregate
\* skill value is 7.5 and B's is 8.4, and the query with weight 0.9 on the
\* skills space ranks B above A.
C7_AsStated ==
  ScenarioRun =>
    /\ value["candidate1"] = 750000
    /\ value["candidate2"] = 840000
    /\ result.order = <<"candidate2", "candidate1">>

\* C7 amended: in the same scenario A's aggregate skill value is
\* 0.2*7 + 0.5*10 + 0.3*7 = 8.5 and B's is 0.2*7 + 0.5*8 + 0.3*10 = 8.4, and
\* the query with weight 0.9 on the skills space ranks A above B.
C7_Scenario ==
  ScenarioRun =>
    /\ value["candidate1"] = 850000
    /\ value["candidate2"] = 840000
    /\ result.order = <<"candidate1", "candidate2">>

C7_Witness ==
  /\ ScenarioRun
  /\ ingested = CandidateIds
  /\ value["candidate1"] > value["candidate2"]
  /\ result.order[1] = "candidate1"
====
